---- MODULE Spec2Model ----
EXTENDS Integers, Sequences, FiniteSets, TLC

(***************************************************************************)
(* The nostrdb JNI bridge (ndb_jni.c) and the storage engine it drives.    *)
(* The bridge functions are modelled from the C source.  The engine behind *)
(* the ndb_* calls (ingestion workers, tables, snapshots, query,           *)
(* subscriptions) is not part of the source tree; it is modelled from the  *)
(* design document and every such definition is named ndb_* or says so.    *)
(***************************************************************************)

\* ------------------------------------------------------------------ bounds
MaxSubmits == 2
MaxTxns == 2
MaxSubs == 1
MaxThreads == 2
MaxCount == 2

\* ------------------------------------------------------- program constants
EscapedSize == 8192
BufSize == 32768

\* ------------------------------------------------------------- input data
\* 32-byte author keys and 32-byte identifiers are opaque values.
Pubkeys == {"A", "B"}
NoteIds == {"i1", "i2", "i3", "i4", "i5", "i6"}

ProfileFieldOrder ==
    <<"name", "display_name", "about", "picture", "banner",
      "nip05", "lud16", "lud06", "website">>
ProfileFields == {ProfileFieldOrder[i] : i \in 1..Len(ProfileFieldOrder)}

\* A C string is a sequence of one-character strings; an optional string
\* (a const char * that may be NULL) is <<>> or <<s>>.
NoProfile == [f \in ProfileFields |-> <<>>]

Event(id, pubkey, created_at, kind, content, tags, profile, defect) ==
    [id |-> id, pubkey |-> pubkey, created_at |-> created_at, kind |-> kind,
     content |-> content, tags |-> tags, profile |-> profile, defect |-> defect]

EvProfileOld ==
    Event("i1", "A", 1, 0, "p-old", <<>>,
          [NoProfile EXCEPT !["name"] = << <<"a", "l">> >>,
                            !["about"] = << <<"x", "\"", "\f", "\n">> >>],
          "none")
EvProfileNew ==
    Event("i2", "A", 2, 0, "p-new", <<>>,
          [NoProfile EXCEPT !["name"] = << <<"a", "\\", "2">> >>,
                            !["website"] = << <<"w", "\t">> >>],
          "none")
EvNoteA1 == Event("i3", "A", 2, 1, "hello", << <<"p", "B">> >>, NoProfile, "none")
EvNoteA2 == Event("i4", "A", 2, 1, "again", <<>>, NoProfile, "none")
EvNoteB == Event("i5", "B", 3, 1, "other", << <<"e", "i3">> >>, NoProfile, "none")
EvBadSig ==
    Event("i6", "A", 3, 0, "forged", <<>>,
          [NoProfile EXCEPT !["name"] = << <<"z">> >>], "sig")
EvBadParse == Event("i6", "B", 3, 1, "{", <<>>, NoProfile, "parse")
EvBadTag == Event("i6", "B", 3, 1, "t", << <<>> >>, NoProfile, "tag")

ValidEvents == {EvProfileOld, EvProfileNew, EvNoteA1, EvNoteA2, EvNoteB}
InvalidEvents == {EvBadSig, EvBadParse, EvBadTag}
RawEvents == ValidEvents \cup InvalidEvents

\* Finalized filters: a sequence of field criteria, each a field type and its
\* set of elements.
Field(type, elems) == [type |-> type, elems |-> elems]
FilterKind1A == << Field("kinds", {1}), Field("authors", {"A"}) >>
FilterKinds01A == << Field("kinds", {0, 1}), Field("authors", {"A"}) >>
FilterTagP == << Field("#p", {"B"}), Field("since", {2}) >>
Filters == {FilterKind1A, FilterKinds01A, FilterTagP}

VARIABLES
    ndb,        \* the engine behind the handle nativeInit returned
    db,         \* the committed tables
    inbox,      \* events handed to the ingester, not yet taken by a worker
    worker,     \* per ingester thread: <<>> or <<event>> validated, awaiting commit
    txns,       \* per struct ndb_txn address: the view an open snapshot reads
    ended,      \* addresses nativeEndQuery has freed and malloc has not reused
    subs,       \* subscription ids issued so far
    rejected,   \* <<event, reason>> pairs the ingester has rejected
    nsubmits,   \* number of events handed to the ingester
    accepted,   \* events for which nativeProcessEvent has returned 1
    delivered,  \* per subscription id, the keys nativePollForNotes has returned
    lastCall,   \* the bridge call that produced this state, with its result
    writer,     \* the commit step: its lock and the key each thread inside holds
    render      \* a profile record and the bytes its JSON text took in the buffer

vars == <<ndb, db, inbox, worker, txns, ended, subs, rejected, nsubmits,
          accepted, delivered, lastCall, writer, render>>

\* ------------------------------------------------------------ bridge values
RetNull == <<"null">>
RetVoid == <<"void">>
RetInt(n) == <<"int", n>>
RetKeys(ks) == <<"keys", ks>>
RetBytes(note) == <<"bytes", note>>
RetString(chars) == <<"string", chars>>
\* The call did not return: the process was ended by a signal.
RetCrash == <<"crash">>

NoCall == [op |-> "none", args |-> <<>>, ret |-> <<>>]
Call(op, args, ret) == [op |-> op, args |-> args, ret |-> ret]

\* ------------------------------------------------- engine tables (ndb_*)
EmptyDb ==
    [notes |-> <<>>, ids |-> {}, pubkeys |-> {}, kinds |-> {}, tags |-> {},
     created |-> {}, profiles |-> [p \in Pubkeys |-> <<>>]]

\* The record the engine stores for an event.
NoteOf(e) ==
    [id |-> e.id, pubkey |-> e.pubkey, created_at |-> e.created_at,
     kind |-> e.kind, content |-> e.content, tags |-> e.tags]

RejectReason(e) ==
    CASE e.defect = "parse" -> "ParseError"
      [] e.defect = "sig" -> "SignatureInvalid"
      [] e.defect = "tag" -> "MalformedTag"

HasTag(note, letter, elems) ==
    \E i \in 1..Len(note.tags) :
        /\ Len(note.tags[i]) >= 2
        /\ note.tags[i][1] = letter
        /\ note.tags[i][2] \in elems

\* One field criterion: any listed element matches.
ndb_filter_field_matches(fld, note) ==
    CASE fld.type = "ids" -> note.id \in fld.elems
      [] fld.type = "authors" -> note.pubkey \in fld.elems
      [] fld.type = "kinds" -> note.kind \in fld.elems
      [] fld.type = "since" -> \E v \in fld.elems : note.created_at >= v
      [] fld.type = "until" -> \E v \in fld.elems : note.created_at <= v
      [] fld.type = "#p" -> HasTag(note, "p", fld.elems)
      [] fld.type = "#e" -> HasTag(note, "e", fld.elems)

\* A filter: every field criterion matches.
ndb_filter_matches(filter, note) ==
    \A i \in 1..Len(filter) : ndb_filter_field_matches(filter[i], note)

\* Stage (c): the identifier index already holds this identifier.
ndb_has_note(d, id) == \E p \in d.ids : p[1] = id

\* Stages (e)-(f) for the record key assigned: the primary write at that key
\* with every secondary index, and the profile cache when the event is a
\* strictly newer profile.
ndb_put_note(d, e, key) ==
    LET cached == d.profiles[e.pubkey]
        newer == IF cached = <<>> THEN TRUE
                 ELSE e.created_at > d.notes[cached[1].key].created_at
        last == IF key > Len(d.notes) THEN key ELSE Len(d.notes)
    IN  [notes |-> [k \in 1..last |-> IF k = key THEN NoteOf(e) ELSE d.notes[k]],
         ids |-> d.ids \cup {<<e.id, key>>},
         pubkeys |-> d.pubkeys \cup {<<e.pubkey, e.created_at, key>>},
         kinds |-> d.kinds \cup {<<e.kind, e.created_at, key>>},
         tags |-> d.tags \cup
                  {<<e.tags[i][1], e.tags[i][2], e.created_at, key>> :
                      i \in {j \in 1..Len(e.tags) : Len(e.tags[j]) >= 2}},
         created |-> d.created \cup {<<e.created_at, key>>},
         profiles |-> IF e.kind = 0 /\ newer
                      THEN [d.profiles EXCEPT
                               ![e.pubkey] = << [key |-> key, fields |-> e.profile] >>]
                      ELSE d.profiles]

\* Stages (d)-(f): the next Record Key and the write at it.
ndb_write_note(d, e) == ndb_put_note(d, e, Len(d.notes) + 1)

\* Every live subscription whose filter the new record matches gets its key.
ndb_notify_subscriptions(ss, e, key) ==
    [s \in DOMAIN ss |->
        IF ss[s].live /\ ndb_filter_matches(ss[s].filter, NoteOf(e))
        THEN [ss[s] EXCEPT !.queue = Append(@, key)]
        ELSE ss[s]]

Workers == 1..ndb.threads

\* --------------------------------------------------------------- Init
\* nativeInit has returned a handle: the engine is open on an empty store with
\* the configured number of ingester threads.
InitEngine ==
    /\ \E n \in 1..MaxThreads :
          /\ ndb = [alive |-> TRUE, threads |-> n]
          /\ worker = [w \in 1..n |-> <<>>]
          /\ writer = [lock |-> FALSE, staged |-> [w \in 1..n |-> <<>>]]
    /\ db = EmptyDb
    /\ inbox = <<>>
    /\ txns = [h \in 1..MaxTxns |-> <<>>]
    /\ ended = {}
    /\ subs = <<>>
    /\ rejected = {}
    /\ nsubmits = 0
    /\ accepted = {}
    /\ delivered = <<>>
    /\ lastCall = NoCall

Init == InitEngine /\ render = [fields |-> NoProfile, size |-> 0]

\* The pointer values a caller can hold: 0 or the handle of the open engine.
NdbPtrs == IF ndb.alive THEN {0, 1} ELSE {0}

\* ---------------------------------------------------------- ingestion
\* ndb_process_event: the event text is handed to the ingester and the call
\* returns 1; it returns 0 when the hand-over fails.
\* The engine's result is dropped and 0 returned.
ProcessEventResult_zero(ndb_ptr, json, result) == RetInt(0)

\* The engine's result is negated.
ProcessEventResult_negated(ndb_ptr, json, result) ==
    IF ndb_ptr = 0 THEN RetInt(0)
    ELSE IF json = <<>> THEN RetInt(0)
    ELSE RetInt(1 - result)

ProcessEventResult(ndb_ptr, json, result) ==
    IF ndb_ptr = 0 THEN RetInt(0)
    ELSE IF json = <<>> THEN RetInt(0)
    ELSE RetInt(result)

nativeProcessEvent(ndb_ptr, e, result) ==
    /\ lastCall = NoCall
    /\ nsubmits < MaxSubmits
    /\ nsubmits' = IF ndb_ptr # 0 /\ result = 1 THEN nsubmits + 1 ELSE nsubmits
    /\ LET ret == ProcessEventResult(ndb_ptr, <<e>>, result)
           queued == ndb_ptr # 0 /\ result = 1
       IN  /\ inbox' = IF queued THEN Append(inbox, e) ELSE inbox
           /\ accepted' = IF ret = RetInt(1) THEN accepted \cup {e} ELSE accepted
           /\ lastCall' = Call("nativeProcessEvent", <<ndb_ptr, e, result>>, ret)
    /\ UNCHANGED <<ndb, db, worker, txns, subs, rejected, delivered, ended,
                   writer, render>>

\* An idle ingester thread takes the next event and runs stages (a)-(b):
\* a defective event is rejected with its reason and dropped.
IngesterValidate(w) ==
    /\ ndb.alive
    /\ lastCall.ret # RetCrash
    /\ worker[w] = <<>>
    /\ inbox # <<>>
    /\ LET e == Head(inbox)
       IN  IF e.defect = "none"
           THEN /\ worker' = [worker EXCEPT ![w] = <<e>>]
                /\ UNCHANGED rejected
           ELSE /\ rejected' = rejected \cup {<<e, RejectReason(e)>>}
                /\ UNCHANGED worker
    /\ inbox' = Tail(inbox)
    /\ lastCall' = NoCall
    /\ UNCHANGED <<ndb, db, txns, subs, nsubmits, accepted, delivered, ended,
                   writer, render>>

\* The commit step, one thread at a time: duplicate check, then the write.
WriterCommit(w) ==
    /\ ndb.alive
    /\ lastCall.ret # RetCrash
    /\ worker[w] # <<>>
    /\ LET e == worker[w][1]
       IN  IF ndb_has_note(db, e.id)
           THEN UNCHANGED <<db, subs>>
           ELSE /\ db' = ndb_write_note(db, e)
                /\ subs' = ndb_notify_subscriptions(subs, e, Len(db.notes) + 1)
    /\ worker' = [worker EXCEPT ![w] = <<>>]
    /\ lastCall' = NoCall
    /\ UNCHANGED <<ndb, inbox, txns, rejected, nsubmits, accepted, delivered,
                   ended, writer, render>>

\* The commit step as the threads take it.  A thread enters when the commit
\* lock is free: it takes the lock, runs the duplicate check and is assigned
\* the next Record Key (0 for a duplicate, which is not written).
\* The lock is not looked at.
WriterBegin_unlocked(w) ==
    /\ ndb.alive
    /\ lastCall.ret # RetCrash
    /\ worker[w] # <<>>
    /\ writer.staged[w] = <<>>
    /\ writer' = [lock |-> TRUE,
                  staged |-> [writer.staged EXCEPT ![w] =
                                 << IF ndb_has_note(db, worker[w][1].id) THEN 0
                                    ELSE Len(db.notes) + 1 >>]]
    /\ lastCall' = NoCall
    /\ UNCHANGED <<ndb, db, inbox, worker, txns, ended, subs, rejected, nsubmits,
                   accepted, delivered, render>>

WriterBegin(w) ==
    /\ ndb.alive
    /\ lastCall.ret # RetCrash
    /\ worker[w] # <<>>
    /\ writer.staged[w] = <<>>
    /\ ~writer.lock
    /\ writer' = [lock |-> TRUE,
                  staged |-> [writer.staged EXCEPT ![w] =
                                 << IF ndb_has_note(db, worker[w][1].id) THEN 0
                                    ELSE Len(db.notes) + 1 >>]]
    /\ lastCall' = NoCall
    /\ UNCHANGED <<ndb, db, inbox, worker, txns, ended, subs, rejected, nsubmits,
                   accepted, delivered, render>>

\* The thread inside writes the record with all its index entries at the key
\* it was assigned, notifies the subscriptions and releases the lock.
WriterFinish(w) ==
    /\ ndb.alive
    /\ lastCall.ret # RetCrash
    /\ writer.staged[w] # <<>>
    /\ LET e == worker[w][1]
           key == writer.staged[w][1]
       IN  IF key = 0
           THEN UNCHANGED <<db, subs>>
           ELSE /\ db' = ndb_put_note(db, e, key)
                /\ subs' = ndb_notify_subscriptions(subs, e, key)
    /\ worker' = [worker EXCEPT ![w] = <<>>]
    /\ writer' = [lock |-> FALSE, staged |-> [writer.staged EXCEPT ![w] = <<>>]]
    /\ lastCall' = NoCall
    /\ UNCHANGED <<ndb, inbox, txns, ended, rejected, nsubmits, accepted,
                   delivered, render>>

\* ----------------------------------------------------------- lifecycle
OpenTxns == {h \in DOMAIN txns : txns[h] # <<>>}

\* The snapshot pointers a caller can hold for reading: 0 or an open snapshot.
TxnPtrs == {0} \cup OpenTxns

\* ndb_destroy: refused (Busy) while a snapshot is open; otherwise the engine
\* stops, its threads with what they had not committed, and every
\* subscription is gone.
ndb_destroy_busy == OpenTxns # {}

DestroyResult(ndb_ptr, busy) == RetVoid

ndb_destroy ==
    IF ndb_destroy_busy
    THEN UNCHANGED <<ndb, inbox, worker, subs>>
    ELSE /\ ndb' = [ndb EXCEPT !.alive = FALSE]
         /\ inbox' = <<>>
         /\ worker' = [w \in DOMAIN worker |-> <<>>]
         /\ subs' = [s \in DOMAIN subs |->
                        [subs[s] EXCEPT !.live = FALSE, !.queue = <<>>]]

nativeDestroy(ndb_ptr) ==
    /\ lastCall = NoCall
    /\ IF ndb_ptr # 0 THEN ndb_destroy ELSE UNCHANGED <<ndb, inbox, worker, subs>>
    /\ lastCall' = Call("nativeDestroy", <<ndb_ptr, ndb_destroy_busy>>,
                        DestroyResult(ndb_ptr, ndb_destroy_busy))
    /\ UNCHANGED <<db, txns, rejected, nsubmits, accepted, delivered, ended,
                   writer, render>>

\* ----------------------------------------------------------- snapshots
FreeTxns == {h \in DOMAIN txns : txns[h] = <<>>}

\* ndb_begin_query: 1 with a read view of the committed tables, 0 when no
\* reader slot is free.
ndb_begin_query_rc == IF FreeTxns # {} THEN 1 ELSE 0

BeginQueryResult(ndb_ptr, txn, rc) ==
    IF ndb_ptr = 0 THEN RetInt(0)
    ELSE IF txn = 0 THEN RetInt(0)
    ELSE IF rc # 1 THEN RetInt(0)
    ELSE RetInt(txn)

\* The snapshot at txn reads the tables as committed now.
ndb_begin_query(txn) == [txns EXCEPT ![txn] = << [view |-> db] >>]

\* The snapshot at txn is released.
ndb_end_query(txn) == [txns EXCEPT ![txn] = <<>>]

\* The struct ndb_txn is allocated at the lowest free address.
nativeBeginQuery(ndb_ptr) ==
    LET txn == IF FreeTxns = {} THEN 0
               ELSE CHOOSE h \in FreeTxns : \A g \in FreeTxns : h <= g
        ret == BeginQueryResult(ndb_ptr, txn, ndb_begin_query_rc)
    IN  /\ lastCall = NoCall
        /\ txns' = IF ret = RetInt(0) THEN txns ELSE ndb_begin_query(txn)
        /\ ended' = IF ret = RetInt(0) THEN ended ELSE ended \ {txn}
        /\ lastCall' = Call("nativeBeginQuery", <<ndb_ptr>>, ret)
        /\ UNCHANGED <<ndb, db, inbox, worker, subs, rejected, nsubmits,
                       accepted, delivered, writer, render>>

\* A pointer nativeEndQuery has freed: the caller still holds the number, the
\* struct ndb_txn behind it is gone.
Released(txn_ptr) == txn_ptr \in ended

\* What a released struct ndb_txn may still lead a read to: nothing, or the
\* tables as they are now.
ReleasedViews == {EmptyDb, db}

\* On a released pointer ndb_end_query reads freed memory and free() is called
\* a second time: the call returns with nothing to show or the process dies.
nativeEndQuery(txn_ptr) ==
    /\ lastCall = NoCall
    /\ IF Released(txn_ptr)
       THEN /\ \E ret \in {RetVoid, RetCrash} :
                 lastCall' = Call("nativeEndQuery", <<txn_ptr, TRUE>>, ret)
            /\ UNCHANGED <<txns, ended>>
       ELSE /\ txns' = IF txn_ptr # 0 THEN ndb_end_query(txn_ptr) ELSE txns
            /\ ended' = IF txn_ptr # 0 THEN ended \cup {txn_ptr} ELSE ended
            /\ lastCall' = Call("nativeEndQuery", <<txn_ptr, FALSE>>, RetVoid)
    /\ UNCHANGED <<ndb, db, inbox, worker, subs, rejected, nsubmits, accepted,
                   delivered, writer, render>>

\* The tables a snapshot handle reads.
ViewOf(txn_ptr) == txns[txn_ptr][1].view

\* ------------------------------------------------------------- lookups
\* ndb_get_note_by_id: the record, its size and its key, through the
\* identifier index of the snapshot.
ndb_get_note_by_id(view, id) ==
    LET ks == {p[2] : p \in {q \in view.ids : q[1] = id}}
    IN  IF ks = {} THEN [note |-> <<>>, len |-> 0, primkey |-> 0]
        ELSE LET k == CHOOSE k \in ks : TRUE
             IN  [note |-> << view.notes[k] >>, len |-> 1, primkey |-> k]

\* The lookup goes to the live tables instead of the snapshot passed in.
GetNoteById_live(ndb_ptr, txn_ptr, note_id) ==
    IF ndb_ptr = 0 \/ txn_ptr = 0 THEN RetNull
    ELSE LET r == ndb_get_note_by_id(db, note_id)
         IN  IF r.note = <<>> \/ r.len = 0 THEN RetNull
             ELSE RetBytes(r.note[1])

\* The length test is inverted.
GetNoteById_len(ndb_ptr, txn_ptr, note_id) ==
    IF ndb_ptr = 0 \/ txn_ptr = 0 THEN RetNull
    ELSE LET r == ndb_get_note_by_id(ViewOf(txn_ptr), note_id)
         IN  IF r.note = <<>> \/ r.len # 0 THEN RetNull
             ELSE RetBytes(r.note[1])

\* What the bridge makes of the engine's answer.
NoteResult(r) ==
    IF r.note = <<>> \/ r.len = 0 THEN RetNull ELSE RetBytes(r.note[1])

GetNoteById(ndb_ptr, txn_ptr, note_id) ==
    IF ndb_ptr = 0 \/ txn_ptr = 0 THEN RetNull
    ELSE NoteResult(ndb_get_note_by_id(ViewOf(txn_ptr), note_id))

\* With a released txn_ptr the engine reads through freed memory: the process
\* dies, or the lookup is answered from whatever the memory still leads to.
GetNoteByIdOutcomes(ndb_ptr, txn_ptr, note_id) ==
    IF ndb_ptr # 0 /\ Released(txn_ptr)
    THEN {RetCrash} \cup
         {NoteResult(ndb_get_note_by_id(v, note_id)) : v \in ReleasedViews}
    ELSE {GetNoteById(ndb_ptr, txn_ptr, note_id)}

nativeGetNoteById(ndb_ptr, txn_ptr, note_id) ==
    /\ lastCall = NoCall
    /\ \E ret \in GetNoteByIdOutcomes(ndb_ptr, txn_ptr, note_id) :
          lastCall' = Call("nativeGetNoteById", <<ndb_ptr, txn_ptr, note_id>>, ret)
    /\ UNCHANGED <<ndb, db, inbox, worker, txns, subs, rejected, nsubmits,
                   accepted, delivered, ended, writer, render>>

\* ------------------------------------------------------------- profiles
\* json_escape_string: dest starts empty; the loop stops at the end of src or
\* when fewer than two bytes of dest_size remain.
RECURSIVE json_escape_loop(_, _, _, _)
json_escape_loop(dest, dest_size, src, si) ==
    IF si > Len(src) \/ ~(Len(dest) < dest_size - 2) THEN dest
    ELSE LET c == src[si]
         IN  IF c = "\"" \/ c = "\\"
             THEN IF Len(dest) + 2 >= dest_size THEN dest
                  ELSE json_escape_loop(dest \o <<"\\", c>>, dest_size, src, si + 1)
             ELSE IF c = "\n"
             THEN IF Len(dest) + 2 >= dest_size THEN dest
                  ELSE json_escape_loop(dest \o <<"\\", "n">>, dest_size, src, si + 1)
             ELSE IF c = "\r"
             THEN IF Len(dest) + 2 >= dest_size THEN dest
                  ELSE json_escape_loop(dest \o <<"\\", "r">>, dest_size, src, si + 1)
             ELSE IF c = "\t"
             THEN IF Len(dest) + 2 >= dest_size THEN dest
                  ELSE json_escape_loop(dest \o <<"\\", "t">>, dest_size, src, si + 1)
             ELSE IF c = "\f"
             THEN json_escape_loop(dest, dest_size, src, si + 1)
             ELSE json_escape_loop(Append(dest, c), dest_size, src, si + 1)

json_escape_string(dest_size, src) ==
    IF src = <<>> THEN <<>> ELSE json_escape_loop(<<>>, dest_size, src[1], 1)

\* ADD_FIELD for the fields from position i on.
RECURSIVE AddFields(_, _, _, _)
AddFields(json, first, fields, i) ==
    IF i > Len(ProfileFieldOrder) THEN json
    ELSE LET value == fields[ProfileFieldOrder[i]]
         IN  IF value # <<>>
             THEN AddFields(json \o (IF first THEN <<>> ELSE <<",">>)
                                 \o <<"\"", ProfileFieldOrder[i], "\":\"">>
                                 \o json_escape_string(EscapedSize, value)
                                 \o <<"\"">>,
                            FALSE, fields, i + 1)
             ELSE AddFields(json, first, fields, i + 1)

ProfileJson(fields) == AddFields(<<"{">>, TRUE, fields, 1) \o <<"}">>

\* The same by sizes, for strings too long to write out.  A string is given as
\* runs of one character, [c |-> character, n |-> how many].
\* Bytes json_escape_string writes for one character of the source.
EscapedWidth(c) ==
    IF c \in {"\"", "\\", "\n", "\r", "\t"} THEN 2
    ELSE IF c = "\f" THEN 0
    ELSE 1

\* di after the loop of json_escape_string has gone through the runs from ri
\* on.  An iteration starts only while di < dest_size - 2, so the break tests
\* (di + 2 >= dest_size) are never true; a run gets as many iterations as it
\* has characters or as the condition lets start.
RECURSIVE json_escape_di(_, _, _, _)
json_escape_di(di, dest_size, runs, ri) ==
    IF ri > Len(runs) \/ ~(di < dest_size - 2) THEN di
    ELSE LET w == EscapedWidth(runs[ri].c)
             room == dest_size - 2 - di
             most == IF w = 0 THEN runs[ri].n ELSE (room + w - 1) \div w
             k == IF runs[ri].n < most THEN runs[ri].n ELSE most
         IN  json_escape_di(di + k * w, dest_size, runs, ri + 1)

\* strlen(escaped) after json_escape_string(escaped, dest_size, value).
json_escape_strlen(dest_size, src) ==
    IF src = <<>> THEN 0 ELSE json_escape_di(0, dest_size, src[1], 1)

\* strlen of the field names.
ProfileFieldNameLen ==
    [f \in ProfileFields |->
        CASE f = "name" -> 4
          [] f = "display_name" -> 12
          [] f = "about" -> 5
          [] f = "picture" -> 7
          [] f = "banner" -> 6
          [] f \in {"nip05", "lud16", "lud06"} -> 5
          [] f = "website" -> 7]

\* strlen(json) after ADD_FIELD for the fields from position i on.
RECURSIVE AddFieldsLen(_, _, _, _)
AddFieldsLen(len, first, fields, i) ==
    IF i > Len(ProfileFieldOrder) THEN len
    ELSE LET value == fields[ProfileFieldOrder[i]]
         IN  IF value # <<>>
             THEN AddFieldsLen(len + (IF first THEN 0 ELSE 1)
                                   + (ProfileFieldNameLen[ProfileFieldOrder[i]] + 4)
                                   + json_escape_strlen(EscapedSize, value)
                                   + 1,
                               FALSE, fields, i + 1)
             ELSE AddFieldsLen(len, first, fields, i + 1)

\* Bytes written into json: "{", the fields, "}" and the terminator.
ProfileJsonBytes(fields) == AddFieldsLen(1, TRUE, fields, 1) + 1 + 1

\* The stored field values the JSON text is built from.
ShortValue == << [c |-> "a", n |-> 3] >>
LongValue == << [c |-> "a", n |-> 1], [c |-> "\"", n |-> 5000] >>
ProfileInputs == [ProfileFields -> {<<>>, <<ShortValue>>, <<LongValue>>}]

\* nativeGetProfileByPubkey from malloc(buf_size) on, for one profile record:
\* strcpy and strcat write the text whatever buf_size is.
BuildProfileJson ==
    /\ render.size = 0
    /\ render' = [render EXCEPT !.size = ProfileJsonBytes(render.fields)]
    /\ UNCHANGED <<ndb, db, inbox, worker, txns, ended, subs, rejected, nsubmits,
                   accepted, delivered, lastCall, writer>>

\* ndb_get_profile_by_pubkey: the cache entry of the author in the snapshot.
ndb_get_profile_by_pubkey(view, pk) == view.profiles[pk]

\* The profile is read from the live tables instead of the snapshot passed in.
GetProfileByPubkey_live(ndb_ptr, txn_ptr, pubkey) ==
    IF ndb_ptr = 0 \/ txn_ptr = 0 THEN RetNull
    ELSE LET profile_ptr == ndb_get_profile_by_pubkey(db, pubkey)
         IN  IF profile_ptr = <<>> THEN RetNull
             ELSE RetString(ProfileJson(profile_ptr[1].fields))

ProfileResult(profile_ptr) ==
    IF profile_ptr = <<>> THEN RetNull
    ELSE RetString(ProfileJson(profile_ptr[1].fields))

GetProfileByPubkey(ndb_ptr, txn_ptr, pubkey) ==
    IF ndb_ptr = 0 \/ txn_ptr = 0 THEN RetNull
    ELSE ProfileResult(ndb_get_profile_by_pubkey(ViewOf(txn_ptr), pubkey))

GetProfileByPubkeyOutcomes(ndb_ptr, txn_ptr, pubkey) ==
    IF ndb_ptr # 0 /\ Released(txn_ptr)
    THEN {RetCrash} \cup
         {ProfileResult(ndb_get_profile_by_pubkey(v, pubkey)) : v \in ReleasedViews}
    ELSE {GetProfileByPubkey(ndb_ptr, txn_ptr, pubkey)}

nativeGetProfileByPubkey(ndb_ptr, txn_ptr, pubkey) ==
    /\ lastCall = NoCall
    /\ \E ret \in GetProfileByPubkeyOutcomes(ndb_ptr, txn_ptr, pubkey) :
          lastCall' = Call("nativeGetProfileByPubkey",
                           <<ndb_ptr, txn_ptr, pubkey>>, ret)
    /\ UNCHANGED <<ndb, db, inbox, worker, txns, subs, rejected, nsubmits,
                   accepted, delivered, ended, writer, render>>

\* --------------------------------------------------------------- query
ndb_matching_keys(view, filter) ==
    {k \in 1..Len(view.notes) : ndb_filter_matches(filter, view.notes[k])}

\* Key a comes before key b: newer creation timestamp, ties by larger key.
ndb_before(view, a, b) ==
    \/ view.notes[a].created_at > view.notes[b].created_at
    \/ /\ view.notes[a].created_at = view.notes[b].created_at
       /\ a > b

RECURSIVE ndb_newest_first(_, _)
ndb_newest_first(view, S) ==
    IF S = {} THEN <<>>
    ELSE LET m == CHOOSE k \in S : \A j \in S \ {k} : ndb_before(view, k, j)
         IN  <<m>> \o ndb_newest_first(view, S \ {m})

\* ndb_query(txn, filter, 1, results, capacity, &count): the newest matches,
\* at most capacity of them.
ndb_query(view, filter, capacity) ==
    LET all == ndb_newest_first(view, ndb_matching_keys(view, filter))
        n == IF Len(all) < capacity THEN Len(all) ELSE capacity
    IN  [rc |-> 1, count |-> n,
         results |-> [i \in 1..n |-> [note_id |-> all[i]]]]

\* More records match than the capacity given.
ndb_query_truncated(view, filter, capacity) ==
    Cardinality(ndb_matching_keys(view, filter)) > capacity

\* The copy loop fills the array from the far end.
Query_reversed(txn_ptr, filter_ptr, limit) ==
    IF txn_ptr = 0 \/ filter_ptr = <<>> THEN RetNull
    ELSE LET r == ndb_query(ViewOf(txn_ptr), filter_ptr[1], limit)
         IN  IF r.rc # 1 \/ r.count = 0 THEN RetNull
             ELSE RetKeys([i \in 1..r.count |-> r.results[r.count + 1 - i].note_id])

QueryResult(r) ==
    IF r.rc # 1 \/ r.count = 0 THEN RetNull
    ELSE RetKeys([i \in 1..r.count |-> r.results[i].note_id])

Query(txn_ptr, filter_ptr, limit) ==
    IF txn_ptr = 0 \/ filter_ptr = <<>> THEN RetNull
    ELSE QueryResult(ndb_query(ViewOf(txn_ptr), filter_ptr[1], limit))

QueryOutcomes(txn_ptr, filter_ptr, limit) ==
    IF filter_ptr # <<>> /\ Released(txn_ptr)
    THEN {RetCrash} \cup
         {QueryResult(ndb_query(v, filter_ptr[1], limit)) : v \in ReleasedViews}
    ELSE {Query(txn_ptr, filter_ptr, limit)}

nativeQuery(txn_ptr, filter_ptr, limit) ==
    /\ lastCall = NoCall
    /\ \E ret \in QueryOutcomes(txn_ptr, filter_ptr, limit) :
          lastCall' = Call("nativeQuery", <<txn_ptr, filter_ptr, limit>>, ret)
    /\ UNCHANGED <<ndb, db, inbox, worker, txns, subs, rejected, nsubmits,
                   accepted, delivered, ended, writer, render>>

\* -------------------------------------------------------- subscriptions
FilterPtrs == {<<>>} \cup {<<f>> : f \in Filters}
SubIds == 0..MaxSubs

IsLive(sub_id) == sub_id \in DOMAIN subs /\ subs[sub_id].live

\* ndb_subscribe: the next subscription id, 0 when no id is left.
ndb_subscribe_id == IF Len(subs) < MaxSubs THEN Len(subs) + 1 ELSE 0

\* The new subscription: live, nothing pending, registered after the records
\* committed so far.
ndb_subscribe(filter) ==
    Append(subs, [live |-> TRUE, filter |-> filter, queue |-> <<>>,
                  start |-> Len(db.notes)])

SubscribeResult(ndb_ptr, filter_ptr, subid) ==
    IF ndb_ptr = 0 \/ filter_ptr = <<>> THEN RetInt(0) ELSE RetInt(subid)

nativeSubscribe(ndb_ptr, filter_ptr) ==
    LET ret == SubscribeResult(ndb_ptr, filter_ptr, ndb_subscribe_id)
    IN  /\ lastCall = NoCall
        /\ IF ret = RetInt(0) THEN UNCHANGED <<subs, delivered>>
           ELSE /\ subs' = ndb_subscribe(filter_ptr[1])
                /\ delivered' = Append(delivered, <<>>)
        /\ lastCall' = Call("nativeSubscribe", <<ndb_ptr, filter_ptr>>, ret)
        /\ UNCHANGED <<ndb, db, inbox, worker, txns, rejected, nsubmits,
                       accepted, ended, writer, render>>

\* ndb_poll_for_notes: up to capacity pending keys, oldest first; -1 for an id
\* that is not a live subscription (UnknownSubscription).
ndb_poll_for_notes(sub_id, capacity) ==
    IF ~IsLive(sub_id) THEN [count |-> -1, note_keys |-> <<>>]
    ELSE LET q == subs[sub_id].queue
             n == IF Len(q) < capacity THEN Len(q) ELSE capacity
         IN  [count |-> n, note_keys |-> SubSeq(q, 1, n)]

\* The keys handed out are no longer pending.
ndb_poll_drain(sub_id, count) ==
    [subs EXCEPT ![sub_id].queue = SubSeq(@, count + 1, Len(@))]

\* The copy loop stops one element early.
PollResult_short(ndb_ptr, count, note_keys) ==
    IF ndb_ptr = 0 THEN RetNull
    ELSE IF count <= 0 THEN RetNull
    ELSE RetKeys([i \in 1..(count - 1) |-> note_keys[i]])

PollResult(ndb_ptr, count, note_keys) ==
    IF ndb_ptr = 0 THEN RetNull
    ELSE IF count <= 0 THEN RetNull
    ELSE RetKeys([i \in 1..count |-> note_keys[i]])

nativePollForNotes(ndb_ptr, sub_id, max_notes) ==
    LET r == ndb_poll_for_notes(sub_id, max_notes)
        ret == PollResult(ndb_ptr, r.count, r.note_keys)
    IN  /\ lastCall = NoCall
        /\ IF ndb_ptr # 0 /\ r.count > 0
           THEN /\ subs' = ndb_poll_drain(sub_id, r.count)
                /\ delivered' = [delivered EXCEPT ![sub_id] =
                                    IF ret = RetNull THEN @ ELSE @ \o ret[2]]
           ELSE UNCHANGED <<subs, delivered>>
        /\ lastCall' = Call("nativePollForNotes", <<ndb_ptr, sub_id, max_notes>>, ret)
        /\ UNCHANGED <<ndb, db, inbox, worker, txns, rejected, nsubmits,
                       accepted, ended, writer, render>>

\* ndb_unsubscribe: 1 and the subscription is gone; 0 for an id that is not live.
ndb_unsubscribe_rc(sub_id) == IF IsLive(sub_id) THEN 1 ELSE 0

ndb_unsubscribe(sub_id) ==
    IF IsLive(sub_id)
    THEN [subs EXCEPT ![sub_id].live = FALSE, ![sub_id].queue = <<>>]
    ELSE subs

UnsubscribeResult(ndb_ptr, rc) == IF ndb_ptr = 0 THEN RetInt(0) ELSE RetInt(rc)

nativeUnsubscribe(ndb_ptr, sub_id) ==
    /\ lastCall = NoCall
    /\ subs' = IF ndb_ptr # 0 THEN ndb_unsubscribe(sub_id) ELSE subs
    /\ lastCall' = Call("nativeUnsubscribe", <<ndb_ptr, sub_id>>,
                        UnsubscribeResult(ndb_ptr, ndb_unsubscribe_rc(sub_id)))
    /\ UNCHANGED <<ndb, db, inbox, worker, txns, rejected, nsubmits, accepted,
                   delivered, ended, writer, render>>

\* The caller takes the result of its call.
Return ==
    /\ lastCall # NoCall
    /\ lastCall.ret # RetCrash
    /\ lastCall' = NoCall
    /\ UNCHANGED <<ndb, db, inbox, worker, txns, subs, rejected, nsubmits,
                   accepted, delivered, ended, writer, render>>

Ingest ==
    \/ \E p \in NdbPtrs, e \in RawEvents, r \in {0, 1} : nativeProcessEvent(p, e, r)
    \/ \E w \in Workers : IngesterValidate(w)
    \/ \E w \in Workers : WriterCommit(w)
    \/ \E p \in NdbPtrs : nativeDestroy(p)
    \/ Return

Snapshots ==
    \/ \E p \in NdbPtrs : nativeBeginQuery(p)
    \/ \E t \in TxnPtrs : nativeEndQuery(t)
    \/ \E p \in NdbPtrs, t \in TxnPtrs, id \in NoteIds : nativeGetNoteById(p, t, id)
    \/ \E p \in NdbPtrs, t \in TxnPtrs, pk \in Pubkeys : nativeGetProfileByPubkey(p, t, pk)
    \/ \E t \in TxnPtrs, f \in FilterPtrs, limit \in 0..MaxCount : nativeQuery(t, f, limit)

Subscriptions ==
    \/ \E p \in NdbPtrs, f \in FilterPtrs : nativeSubscribe(p, f)
    \/ \E p \in NdbPtrs, s \in SubIds, m \in 0..MaxCount : nativePollForNotes(p, s, m)
    \/ \E p \in NdbPtrs, s \in SubIds : nativeUnsubscribe(p, s)

\* The snapshot pointers a caller holds: 0, the open snapshots, and the ones it
\* has ended.
HeldTxnPtrs == TxnPtrs \cup ended

Handles ==
    \/ \E p \in NdbPtrs : nativeBeginQuery(p)
    \/ \E t \in HeldTxnPtrs : nativeEndQuery(t)
    \/ \E p \in NdbPtrs, t \in HeldTxnPtrs, id \in NoteIds :
          nativeGetNoteById(p, t, id)
    \/ \E p \in NdbPtrs, t \in HeldTxnPtrs, pk \in Pubkeys :
          nativeGetProfileByPubkey(p, t, pk)
    \/ \E t \in HeldTxnPtrs, f \in FilterPtrs, limit \in 0..MaxCount :
          nativeQuery(t, f, limit)

\* Ingestion with the commit step taken in two steps by each thread.
Commit ==
    \/ \E p \in NdbPtrs, e \in RawEvents, r \in {0, 1} : nativeProcessEvent(p, e, r)
    \/ \E w \in Workers : IngesterValidate(w)
    \/ \E w \in Workers : WriterBegin(w)
    \/ \E w \in Workers : WriterFinish(w)
    \/ Return

Next == Ingest \/ Snapshots \/ Subscriptions

Spec == Init /\ [][Next]_vars

\* Ingestion with snapshots and reads; ingestion with subscriptions.
SnapshotSpec == Init /\ [][Ingest \/ Snapshots]_vars
SubscriptionSpec == Init /\ [][Ingest \/ Subscriptions]_vars

\* Ingestion with a caller that keeps using the snapshot pointers it has ended.
ReleasedSpec == Init /\ [][Ingest \/ Handles]_vars

\* Ingestion with the threads interleaving inside and around the commit step.
CommitSpec == Init /\ [][Commit]_vars

\* The JSON text of every profile record of ProfileInputs.
BufferInit ==
    /\ InitEngine
    /\ \E f \in ProfileInputs : render = [fields |-> f, size |-> 0]
BufferSpec == BufferInit /\ [][BuildProfileJson]_vars

\* ================================================================ claims
Quiescent == inbox = <<>> /\ \A w \in DOMAIN worker : worker[w] = <<>>

\* The keys of the records committed after subscription s was registered
\* that match its filter, in commit order.
RECURSIVE KeysFrom(_, _)
KeysFrom(s, k) ==
    IF k > Len(db.notes) THEN <<>>
    ELSE (IF ndb_filter_matches(subs[s].filter, db.notes[k]) THEN <<k>> ELSE <<>>)
         \o KeysFrom(s, k + 1)
ExpectedKeys(s) == KeysFrom(s, subs[s].start + 1)

\* C1: for a live subscription, the keys returned by the polls so far followed
\* by the keys still pending are exactly the keys of the matching records
\* committed since it was registered, in commit order, each once; a poll with
\* max_notes >= 1 returns at most max_notes keys and leaves keys pending only
\* when it returned max_notes of them, so repeated polls hand over all of them.
C1_SubscriptionDelivery ==
    /\ \A s \in DOMAIN subs :
          subs[s].live => delivered[s] \o subs[s].queue = ExpectedKeys(s)
    /\ (/\ lastCall.op = "nativePollForNotes"
        /\ lastCall.args[1] # 0
        /\ IsLive(lastCall.args[2])
        /\ lastCall.args[3] >= 1)
       => IF lastCall.ret = RetNull
          THEN subs[lastCall.args[2]].queue = <<>>
          ELSE /\ Len(lastCall.ret[2]) <= lastCall.args[3]
               /\ Len(lastCall.ret[2]) < lastCall.args[3]
                     => subs[lastCall.args[2]].queue = <<>>

\* Two matching records were committed after the subscription was registered
\* and came out in two polls of one key each.
C1_Witness ==
    /\ lastCall.op = "nativePollForNotes"
    /\ lastCall.args[3] = 1
    /\ lastCall.ret = RetKeys(<<2>>)
    /\ delivered[lastCall.args[2]] = <<1, 2>>
    /\ subs[lastCall.args[2]].queue = <<>>

C10_UnknownSubscription ==
    (/\ lastCall.op = "nativePollForNotes"
     /\ lastCall.args[1] # 0
     /\ ~IsLive(lastCall.args[2]))
    => lastCall.ret # PollResult(lastCall.args[1], 0, <<>>)

\* C9 (as claimed): nativeDestroy called while a snapshot is open is refused
\* with Busy and the engine stays open.
C9_DestroyBusy ==
    (/\ lastCall.op = "nativeDestroy"
     /\ lastCall.args[1] # 0
     /\ OpenTxns # {})
    => lastCall.ret = <<"Busy">> /\ ndb.alive

\* C2: an ingestion commit changes the result of no lookup, profile read or
\* query made through a snapshot that is open when it happens, however many
\* commits follow and whatever other snapshots are open.
C2_SnapshotIsolation ==
    [][db' # db =>
          \A t \in OpenTxns :
             /\ txns'[t] # <<>>
             /\ \A id \in NoteIds : GetNoteById(1, t, id)' = GetNoteById(1, t, id)
             /\ \A pk \in Pubkeys :
                   GetProfileByPubkey(1, t, pk)' = GetProfileByPubkey(1, t, pk)
             /\ \A f \in Filters, l \in 0..MaxCount :
                   Query(t, <<f>>, l)' = Query(t, <<f>>, l)]_vars

\* A lookup through the first snapshot misses a record that a later snapshot,
\* open at the same time, finds.
C2_Witness ==
    /\ lastCall.op = "nativeGetNoteById"
    /\ lastCall.args[1] # 0 /\ lastCall.args[2] # 0
    /\ lastCall.ret = RetNull
    /\ \E t \in OpenTxns :
          /\ t # lastCall.args[2]
          /\ GetNoteById(1, t, lastCall.args[3]) # RetNull

\* C3: no identifier has two Record Keys, each index holds exactly one entry
\* per record whatever was submitted twice, and a submission of an event the
\* store already holds is accepted like any other.
C3_IdempotentIngestion ==
    /\ \A j, k \in 1..Len(db.notes) : db.notes[j].id = db.notes[k].id => j = k
    /\ db.ids = {<<db.notes[k].id, k>> : k \in 1..Len(db.notes)}
    /\ db.pubkeys = {<<db.notes[k].pubkey, db.notes[k].created_at, k>> :
                        k \in 1..Len(db.notes)}
    /\ db.kinds = {<<db.notes[k].kind, db.notes[k].created_at, k>> :
                      k \in 1..Len(db.notes)}
    /\ db.created = {<<db.notes[k].created_at, k>> : k \in 1..Len(db.notes)}
    /\ \A p \in db.tags :
          /\ p[4] \in 1..Len(db.notes)
          /\ HasTag(db.notes[p[4]], p[1], {p[2]})
    /\ (/\ lastCall.op = "nativeProcessEvent"
        /\ lastCall.args[1] # 0
        /\ lastCall.args[3] = 1
        /\ ndb_has_note(db, lastCall.args[2].id))
       => lastCall.ret = RetInt(1)

\* One valid event was handed over twice with two ingester threads running,
\* both submissions have been processed and the store holds one record.
C3_Witness ==
    /\ ndb.alive /\ ndb.threads = 2
    /\ nsubmits = 2
    /\ Cardinality(accepted) = 1
    /\ Quiescent
    /\ Len(db.notes) = 1

\* C4: the keys nativeQuery returns are keys of records of the snapshot that
\* match the filter, each before the next: newer creation timestamp first,
\* ties by larger key.
C4_QueryOrdering ==
    (/\ lastCall.op = "nativeQuery"
     /\ lastCall.ret # RetNull)
    => LET view == ViewOf(lastCall.args[1])
           filter == lastCall.args[2][1]
           ks == lastCall.ret[2]
       IN  /\ Len(ks) <= lastCall.args[3]
           /\ \A i \in 1..Len(ks) :
                 /\ ks[i] \in 1..Len(view.notes)
                 /\ ndb_filter_matches(filter, view.notes[ks[i]])
           /\ \A i \in 1..(Len(ks) - 1) :
                 \/ view.notes[ks[i]].created_at > view.notes[ks[i + 1]].created_at
                 \/ /\ view.notes[ks[i]].created_at = view.notes[ks[i + 1]].created_at
                    /\ ks[i] > ks[i + 1]

\* A query returned two keys, the record committed first being the newer one.
C4_Witness ==
    /\ lastCall.op = "nativeQuery"
    /\ lastCall.ret = RetKeys(<<1, 2>>)

\* C5 (as claimed): a query with limit >= 1 returns the newest matches, limit
\* of them when more match and all of them otherwise, and the caller can tell
\* from what it gets whether more records matched than limit: the same filter
\* and limit giving the same result through two snapshots were truncated in
\* both or in neither.
C5_LimitAndTruncation ==
    /\ (/\ lastCall.op = "nativeQuery"
        /\ lastCall.args[1] # 0 /\ lastCall.args[2] # <<>>
        /\ lastCall.args[3] >= 1)
       => LET view == ViewOf(lastCall.args[1])
              all == ndb_newest_first(view,
                        ndb_matching_keys(view, lastCall.args[2][1]))
          IN  IF all = <<>> THEN lastCall.ret = RetNull
              ELSE IF Len(all) > lastCall.args[3]
              THEN lastCall.ret = RetKeys(SubSeq(all, 1, lastCall.args[3]))
              ELSE lastCall.ret = RetKeys(all)
    /\ \A t1, t2 \in OpenTxns, f \in Filters, l \in 1..MaxCount :
          Query(t1, <<f>>, l) = Query(t2, <<f>>, l)
             => (ndb_query_truncated(ViewOf(t1), f, l)
                    <=> ndb_query_truncated(ViewOf(t2), f, l))

\* The JSON text of the profile fields of the two profile events.
ProfileText(e) ==
    IF e = EvProfileOld
    THEN <<"{", "\"", "name", "\":\"", "a", "l", "\"",
           ",", "\"", "about", "\":\"", "x", "\\", "\"", "\\", "n", "\"", "}">>
    ELSE <<"{", "\"", "name", "\":\"", "a", "\\", "\\", "2", "\"",
           ",", "\"", "website", "\":\"", "w", "\\", "t", "\"", "}">>

\* C6: nativeGetProfileByPubkey returns, for an author with profile events in
\* the snapshot, the fields of the one with the greatest creation timestamp
\* and nothing of an older one, whichever was committed first; and null for
\* an author with none.
C6_ProfileFreshness ==
    (/\ lastCall.op = "nativeGetProfileByPubkey"
     /\ lastCall.args[1] # 0 /\ lastCall.args[2] # 0)
    => LET view == ViewOf(lastCall.args[2])
           ps == {k \in 1..Len(view.notes) :
                     /\ view.notes[k].kind = 0
                     /\ view.notes[k].pubkey = lastCall.args[3]}
       IN  IF ps = {} THEN lastCall.ret = RetNull
           ELSE \A k \in ps :
                   (\A j \in ps \ {k} :
                       view.notes[k].created_at > view.notes[j].created_at)
                   => lastCall.ret =
                         RetString(ProfileText(
                            CHOOSE e \in ValidEvents : NoteOf(e) = view.notes[k]))

\* The older profile event was committed after the newer one and the profile
\* read returns the newer one's fields.
C6_Witness ==
    /\ lastCall.op = "nativeGetProfileByPubkey"
    /\ lastCall.args[2] # 0
    /\ Len(ViewOf(lastCall.args[2]).notes) = 2
    /\ ViewOf(lastCall.args[2]).notes[2] = NoteOf(EvProfileOld)
    /\ lastCall.ret = RetString(ProfileText(EvProfileNew))

\* C7 (as claimed): a snapshot begun after nativeProcessEvent returned 1 for a
\* valid event finds the event's record by its identifier.
C7_ReadYourWrites ==
    (/\ lastCall.op = "nativeBeginQuery"
     /\ lastCall.ret # RetInt(0))
    => \A e \in accepted :
          e.defect = "none"
             => GetNoteById(1, lastCall.ret[2], e.id) = RetBytes(NoteOf(e))

\* C7 (amended): a snapshot begun after the ingester has committed a valid
\* event (not merely after nativeProcessEvent has returned) finds by the
\* event's identifier a record with the identifier, author, timestamp, kind,
\* content and tags submitted; and whatever a lookup returns is the record of
\* a valid event handed over, under the identifier asked for.
C7_ReadCommitted ==
    /\ (/\ lastCall.op = "nativeBeginQuery"
        /\ lastCall.ret # RetInt(0))
       => \A e \in accepted :
             (e.defect = "none" /\ ndb_has_note(db, e.id))
                => GetNoteById(1, lastCall.ret[2], e.id) = RetBytes(NoteOf(e))
    /\ (/\ lastCall.op = "nativeGetNoteById"
        /\ lastCall.ret # RetNull)
       => /\ lastCall.ret[2].id = lastCall.args[3]
          /\ \E e \in accepted :
                e.defect = "none" /\ lastCall.ret = RetBytes(NoteOf(e))
    /\ (/\ lastCall.op = "nativeGetNoteById"
        /\ lastCall.args[1] # 0 /\ lastCall.args[2] # 0
        /\ lastCall.ret = RetNull)
       => ~ndb_has_note(ViewOf(lastCall.args[2]), lastCall.args[3])

\* A lookup in a snapshot begun after the commit returns the record.
C7_Witness ==
    /\ lastCall.op = "nativeGetNoteById"
    /\ lastCall.ret = RetBytes(NoteOf(EvNoteB))

\* C11 (as claimed): a lookup, profile read, query or second nativeEndQuery on a
\* snapshot pointer that nativeEndQuery has already released fails with
\* SnapshotClosed; none is served and none goes unreported.
C11_SnapshotClosed ==
    /\ (/\ lastCall.op \in {"nativeGetNoteById", "nativeGetProfileByPubkey"}
        /\ lastCall.args[1] # 0
        /\ lastCall.args[2] \in ended)
       => lastCall.ret = <<"SnapshotClosed">>
    /\ (/\ lastCall.op = "nativeQuery"
        /\ lastCall.args[2] # <<>>
        /\ lastCall.args[1] \in ended)
       => lastCall.ret = <<"SnapshotClosed">>
    /\ (/\ lastCall.op = "nativeEndQuery"
        /\ lastCall.args[2])
       => lastCall.ret = <<"SnapshotClosed">>

\* The threads inside the commit step.
InCommit == {w \in Workers : writer.staged[w] # <<>>}

\* C12: whatever the number of ingester threads, at most one thread is inside
\* the commit step; the key it holds is the next one of the sequence; a commit
\* appends exactly one record at the next key and leaves every committed
\* record under its key; and the index entries a commit adds all refer to the
\* record it appends, the entries present before staying as they are.
C12_SingleCommitter ==
    /\ [](/\ Cardinality(InCommit) <= 1
          /\ writer.lock <=> InCommit # {}
          /\ \A w \in InCommit :
                writer.staged[w][1] \in {0, Len(db.notes) + 1}
          /\ \A j, k \in 1..Len(db.notes) :
                db.notes[j].id = db.notes[k].id => j = k)
    /\ [][db' # db =>
             LET key == Len(db.notes) + 1
             IN  /\ Len(db'.notes) = key
                 /\ \A k \in 1..Len(db.notes) : db'.notes[k] = db.notes[k]
                 /\ db.ids \subseteq db'.ids
                 /\ db.pubkeys \subseteq db'.pubkeys
                 /\ db.kinds \subseteq db'.kinds
                 /\ db.created \subseteq db'.created
                 /\ db.tags \subseteq db'.tags
                 /\ db'.ids \ db.ids = {<<db'.notes[key].id, key>>}
                 /\ db'.pubkeys \ db.pubkeys =
                       {<<db'.notes[key].pubkey, db'.notes[key].created_at, key>>}
                 /\ db'.kinds \ db.kinds =
                       {<<db'.notes[key].kind, db'.notes[key].created_at, key>>}
                 /\ db'.created \ db.created = {<<db'.notes[key].created_at, key>>}
                 /\ \A p \in db'.tags \ db.tags : p[4] = key]_vars

\* Two ingester threads hold a validated event each; one is inside the commit
\* step with key 1, the other waits for the lock.
C12_Witness ==
    /\ ndb.threads = 2
    /\ \A w \in Workers : worker[w] # <<>>
    /\ \E w \in Workers : writer.staged[w] = <<1>>
    /\ writer.lock

\* C13 (as claimed): the JSON text of a profile record, with its terminator,
\* takes no more than the 32768 bytes allocated for it, whichever fields are
\* present and however long the stored values are.
C13_BufferBound == render.size <= BufSize

====
